---- MODULE Spec2Model ----
(***************************************************************************)
(* Model of pynamic_ode (src/pynamic.py): an ODE integrator whose time     *)
(* step is halved when the monitored component changes too fast and is     *)
(* doubled back toward the base step later on.                             *)
(*                                                                         *)
(* Numbers.  The code computes with floats; the model computes exactly on  *)
(* integer grids.  Times and step sizes are whole seconds, so the literal  *)
(* -1 of line 79 is the integer -1.  State values are integers and every   *)
(* derivative is a multiple of DerivUnit = 6, which makes the two          *)
(* divisions of the Runge-Kutta branch (h/2 in the stages, /6 in the       *)
(* weighted mean) exact.  Init only draws (base_time_step, min_step_time)  *)
(* pairs for which every halving the run can perform is exact.  Rounding,  *)
(* overflow and underflow of floats are outside the model.  A call with    *)
(* base_time_step = 0 never advances the time and appends for ever; the    *)
(* model follows its trajectory up to MaxPoints points, a length no call   *)
(* with a positive base_time_step reaches (PointsWithinBound).             *)
(*                                                                         *)
(* Callbacks.  func is any callback: each call returns a nondeterministic  *)
(* member of DerivSet.  end_condition is a deterministic function of       *)
(* (current_time, y_vals, y_vals_old) drawn at Init from EndFns.  Under    *)
(* Spec no callback writes to the arrays it is given; AliasSpec adds an    *)
(* end condition that does.                                                *)
(*                                                                         *)
(* History.  attempts and pending are not variables of the code: attempts  *)
(* records whether every attempt so far changed the monitored component    *)
(* too much; pending is TRUE from the rejection that schedules a           *)
(* relaxation (line 156) until the relaxation is carried out (line 100).   *)
(*                                                                         *)
(* Control.  pc is the position in the body of the while loop of line 90:  *)
(* "guard" (line 90), "relax" (line 98), "attempt" (lines 107-163),        *)
(* "done" (line 165), "raised" (the call of a callback raised TypeError    *)
(* and the exception left pynamic_ode).                                    *)
(***************************************************************************)
EXTENDS Integers, Sequences, FiniteSets, TLC

\* ---------------------------------------------------------------- bounds
MaxStep == 8       \* the largest base_time_step
MinStep == 2       \* the smallest min_step_time
MaxSpan == 5       \* max_time - start_time is at most MaxSpan
MaxPoints == 8     \* no trajectory is followed beyond MaxPoints points
MaxStart == 5      \* the negative start time is -MaxStart
MaxInit == 1       \* components of initial_val are 0 and +-InitUnit * MaxInit
MaxDeriv == 1      \* derivatives are +-DerivUnit * MaxDeriv
DeltaDen == 2      \* max_param_delta is the fraction 1/DeltaDen
MaxThr == 2        \* the time-based end condition is met from time -MaxThr on

DerivUnit == 2 * 3         \* grid of the derivatives (keeps /2 and /6 exact)
InitUnit == DerivUnit      \* grid of the initial values

\* ------------------------------------------------------------- arithmetic
\* abs left out
AbsOmitted(x) == x

Abs(x) == IF x < 0 THEN -x ELSE x

\* n/d > pn/pd for integers n, d, pn, pd with d # 0 and pd > 0
RatioGT(n, d, pn, pd) ==
    IF d > 0 THEN n * pd > pn * d ELSE n * pd < pn * d

VecAdd(a, b) == [i \in 1..Len(a) |-> a[i] + b[i]]
VecScale(a, c) == [i \in 1..Len(a) |-> a[i] * c]
VecHalf(a) == [i \in 1..Len(a) |-> a[i] \div 2]
VecSixth(a) == [i \in 1..Len(a) |-> a[i] \div 6]
Zeros(a) == [i \in 1..Len(a) |-> 0]

\* ------------------------------------------------------------- callbacks
DerivVals == {-DerivUnit * MaxDeriv, DerivUnit * MaxDeriv}
DerivSet == {<<a, -a>> : a \in DerivVals}

\* end_condition of pynamic_test (src/pynamic_test.py, lines 30-33): met
\* when the first value is below the threshold (0.1 there, 1 on the integer
\* grid); it is defined with two parameters, (_, y_vals)
TestEndCondition == [kind |-> "below", thr |-> 1, sig |-> 1, params |-> 2]

\* the end conditions tried: never met; met when the first value is below
\* thr; met from time thr on; met when the values equal the previous values;
\* the one of pynamic_test.  params is the number of parameters of the
\* callback.
EndFns ==
    { [kind |-> "never", thr |-> 0, sig |-> 0, params |-> 3],
      [kind |-> "below", thr |-> 0, sig |-> 1, params |-> 3],
      [kind |-> "after", thr |-> -MaxThr, sig |-> -2, params |-> 3],
      [kind |-> "same", thr |-> 0, sig |-> 3, params |-> 3],
      TestEndCondition }

\* an end condition that writes to the array it is given: it replaces the
\* negative values by 0 in place (for i in range(len(y_vals)): if
\* y_vals[i] < 0: y_vals[i] = 0) and returns 0
WritingEndFns == { [kind |-> "clip", thr |-> 0, sig |-> 0, params |-> 3] }

\* the array y as the call of the end condition e leaves it
Written(e, y) ==
    IF e.kind = "clip"
    THEN [i \in 1..Len(y) |-> IF y[i] < e.thr THEN e.thr ELSE y[i]]
    ELSE y

\* line 91 passes three arguments: the call succeeds when the callback has
\* three parameters and raises TypeError otherwise
Callable(e) == e.params = 3

\* the value end_condition(current_time, y_vals, y_vals_old) of the callback e
EndCondition(e, t, y, yold) ==
    CASE e.kind = "never" -> 0
      [] e.kind = "below" -> IF y[1] < e.thr THEN e.sig ELSE 0
      [] e.kind = "after" -> IF t >= e.thr THEN e.sig ELSE 0
      [] e.kind = "same" -> IF y = yold THEN e.sig ELSE 0
      [] e.kind = "clip" -> e.sig

\* ------------------------------------------------------------------ state
VARIABLES
    start_time, max_time, initial_val, param_to_monitor, max_param_delta,
    base_time_step, min_step_time, end_condition, use_rk4,
    y_cur, y_old, y_new, times, y_vals, current_time, cur_step_size,
    next_relax, end_cond_val, status, not_failed, calls, attempts, pending,
    pc

args == <<start_time, max_time, initial_val, param_to_monitor,
          max_param_delta, base_time_step, min_step_time, end_condition,
          use_rk4>>
vars == <<start_time, max_time, initial_val, param_to_monitor,
          max_param_delta, base_time_step, min_step_time, end_condition,
          use_rk4, y_cur, y_old, y_new, times, y_vals, current_time,
          cur_step_size, next_relax, end_cond_val, status, not_failed,
          calls, attempts, pending, pc>>

NoRelax == -1

\* the step sizes reached by halving s down to m are all exact
RECURSIVE HalvingExact(_, _)
HalvingExact(s, m) ==
    IF s <= m \/ s < 2 * m THEN TRUE
    ELSE s % 2 = 0 /\ HalvingExact(s \div 2, m)

StartTimes == {-MaxStart, 0}
Spans == {-1, 0, MaxSpan}
InitVals == { <<0, InitUnit * MaxInit>>,
              <<InitUnit * MaxInit, -InitUnit * MaxInit>> }
ParamDeltas == {<<1, DeltaDen>>}
BaseSteps == {0, MinStep + 1, 2 * MinStep, MaxStep}
MinSteps == {MinStep, MaxStep - 3}

\* the calls followed: every combination of the sets above, with an end
\* condition of fns
Inputs(fns) ==
    /\ start_time \in StartTimes
    /\ \E sp \in Spans : max_time = start_time + sp
    /\ initial_val \in InitVals
    /\ param_to_monitor \in 0..(Len(initial_val) - 1)
    /\ max_param_delta \in ParamDeltas
    /\ base_time_step \in BaseSteps
    /\ min_step_time \in MinSteps
    /\ HalvingExact(base_time_step, min_step_time)
    /\ end_condition \in fns
    /\ use_rk4 \in BOOLEAN

\* and one longer call under RK1: a base step that can be halved twice, a
\* span long enough for the step to be doubled twice, a negative start time
LongInputs ==
    /\ start_time = -(MaxStart + 1)
    /\ max_time = start_time + MaxSpan + 2
    /\ initial_val = <<InitUnit * (MaxInit + 1), -InitUnit * (MaxInit + 1)>>
    /\ param_to_monitor = 0
    /\ max_param_delta \in ParamDeltas
    /\ base_time_step = 2 * MinStep
    /\ min_step_time = MinStep - 1
    /\ HalvingExact(base_time_step, min_step_time)
    /\ end_condition \in {e \in EndFns : e.kind = "never"}
    /\ use_rk4 = FALSE

\* lines 72-88: the locals and the two lists before the loop
Locals ==
    /\ y_cur = initial_val
    /\ y_old = Zeros(initial_val)
    /\ y_new = initial_val
    /\ times = <<start_time>>
    /\ y_vals = <<initial_val>>
    /\ current_time = start_time
    /\ cur_step_size = base_time_step
    /\ next_relax = NoRelax
    /\ end_cond_val = TRUE
    /\ status = 0
    /\ not_failed = TRUE
    /\ calls = <<>>
    /\ attempts = "none"
    /\ pending = FALSE
    /\ pc = "guard"

\* the callbacks leave their arguments alone
Init == (Inputs(EndFns) \/ LongInputs) /\ Locals

\* an end condition that writes to its argument is among the callbacks
AliasInit == (Inputs(EndFns \cup WritingEndFns) \/ LongInputs) /\ Locals

\* ---------------------------------------------------------------- line 90
\* the while condition without its test of not_failed
LoopGuardNoFail == current_time < max_time /\ end_cond_val

\* the while condition with <= in place of <
LoopGuardInclusive == current_time <= max_time /\ end_cond_val /\ not_failed

\* the while condition running on until max_time + min_step_time
LoopGuardSlack ==
    current_time < max_time + min_step_time /\ end_cond_val /\ not_failed

LoopGuard == current_time < max_time /\ end_cond_val /\ not_failed

\* the while condition is false: return (line 165)
LoopExit ==
    /\ pc = "guard"
    /\ ~LoopGuard
    /\ pc' = "done"
    /\ UNCHANGED <<args, y_cur, y_old, y_new, times, y_vals, current_time,
                   cur_step_size, next_relax, end_cond_val, status,
                   not_failed, calls, attempts,
                   pending>>

\* line 91 with the previous values passed in place of the current ones
EndValStale == EndCondition(end_condition, current_time, y_old, y_old)

\* line 91
EndVal == EndCondition(end_condition, current_time, y_cur, y_old)

\* line 91: the call of end_condition raises
EndRaises ==
    /\ pc = "guard"
    /\ LoopGuard
    /\ ~Callable(end_condition)
    /\ pc' = "raised"
    /\ UNCHANGED <<args, y_cur, y_old, y_new, times, y_vals, current_time,
                   cur_step_size, next_relax, end_cond_val, status,
                   not_failed, calls, attempts,
                   pending>>

\* lines 88, 161 and 163: the array y_cur is the last element of y_vals
\* (the same object, appended without a copy), and line 91 passes that
\* array to the end condition: what the callback writes to its argument is
\* written to both
LastWritten ==
    [y_vals EXCEPT ![Len(y_vals)] = Written(end_condition, y_cur)]

\* lines 91-95: the end condition is met; line 92 copies y_cur after the
\* call
EndMet ==
    /\ pc = "guard"
    /\ LoopGuard
    /\ Callable(end_condition)
    /\ EndVal # 0
    /\ end_cond_val' = FALSE
    /\ status' = Abs(EndVal)
    /\ y_cur' = Written(end_condition, y_cur)
    /\ y_vals' = LastWritten
    /\ y_old' = y_cur'
    /\ calls' = <<>>
    /\ pc' = "guard"
    /\ UNCHANGED <<args, y_new, times, current_time, cur_step_size,
                   next_relax, not_failed, attempts, pending>>

\* lines 91-96: the end condition is not met, go on with the step
EndNotMet ==
    /\ pc = "guard"
    /\ LoopGuard
    /\ Callable(end_condition)
    /\ EndVal = 0
    /\ y_cur' = Written(end_condition, y_cur)
    /\ y_vals' = LastWritten
    /\ y_old' = y_cur'
    /\ calls' = <<>>
    /\ pc' = "relax"
    /\ UNCHANGED <<args, y_new, times, current_time, cur_step_size,
                   next_relax, end_cond_val, status, not_failed, attempts,
                   pending>>

\* ------------------------------------------------------------ lines 98-104
ShouldRelax == cur_step_size < base_time_step /\ current_time >= next_relax

\* the doubling of lines 101-104 without the cap of lines 102-104
DoubledNoCap(s) == s * 2

Doubled(s) == IF s * 2 > base_time_step THEN base_time_step ELSE s * 2

Relax ==
    /\ pc = "relax"
    /\ ShouldRelax
    /\ next_relax' = NoRelax
    /\ pending' = FALSE
    /\ cur_step_size' = Doubled(cur_step_size)
    /\ pc' = "attempt"
    /\ UNCHANGED <<args, y_cur, y_old, y_new, times, y_vals, current_time,
                   end_cond_val, status, not_failed, calls, attempts>>

NoRelaxation ==
    /\ pc = "relax"
    /\ ~ShouldRelax
    /\ pc' = "attempt"
    /\ UNCHANGED <<args, y_cur, y_old, y_new, times, y_vals, current_time,
                   cur_step_size, next_relax, end_cond_val, status,
                   not_failed, calls, attempts,
                   pending>>

\* ----------------------------------------------------------- lines 107-132
\* the results of the calls of func in one attempt: four under RK4 (lines
\* 110, 119, 123, 127), one under RK1 (line 110, repeated to fill the tuple)
StageResults ==
    IF use_rk4
    THEN {<<k1, k2, k3, k4>> : k1 \in DerivSet, k2 \in DerivSet,
                               k3 \in DerivSet, k4 \in DerivSet}
    ELSE {<<k1, k1, k1, k1>> : k1 \in DerivSet}

\* lines 118 and 122 with the whole step in place of the half
HalfStageWhole(k) == VecAdd(y_cur, VecScale(k, cur_step_size))

\* y_cur + k*(cur_step_size/2), lines 118 and 122
HalfStage(k) == VecAdd(y_cur, VecHalf(VecScale(k, cur_step_size)))

\* y_cur + k*cur_step_size, line 126
FullStage(k) == VecAdd(y_cur, VecScale(k, cur_step_size))

\* line 129
Rk4Deltas(ks) ==
    VecSixth(VecAdd(VecAdd(ks[1], VecScale(ks[2], 2)),
                    VecAdd(VecScale(ks[3], 2), ks[4])))

\* lines 110-132: the candidate state of the attempt
YNew(ks) ==
    LET deltas == IF use_rk4 THEN Rk4Deltas(ks) ELSE ks[1]
    IN VecAdd(y_cur, VecScale(deltas, cur_step_size))

\* the calls of func made in the current iteration, in order: the two
\* arguments and the result k; h2 is twice the time step argument (so that
\* cur_step_size/2 is an integer)
CallLog(ks) ==
    IF use_rk4
    THEN << [h2 |-> 2 * cur_step_size, y |-> y_cur, k |-> ks[1]],
            [h2 |-> cur_step_size, y |-> HalfStage(ks[1]), k |-> ks[2]],
            [h2 |-> cur_step_size, y |-> HalfStage(ks[2]), k |-> ks[3]],
            [h2 |-> 2 * cur_step_size, y |-> FullStage(ks[3]), k |-> ks[4]] >>
    ELSE << [h2 |-> 2 * cur_step_size, y |-> y_cur, k |-> ks[1]] >>

\* ----------------------------------------------------------- lines 134-140
Monitor(y) == y[param_to_monitor + 1]

\* line 138 taking the old value always
DenomValOfCur(monitor_cur, monitor_new) == monitor_cur

\* line 138
DenomVal(monitor_cur, monitor_new) ==
    IF monitor_new # 0 THEN monitor_new ELSE monitor_cur

\* the condition of the if of lines 139-140
Exceeds(monitor_cur, monitor_new) ==
    LET denom_val == DenomVal(monitor_cur, monitor_new)
    IN /\ denom_val # 0
       /\ RatioGT(Abs(monitor_new - monitor_cur), denom_val,
                  max_param_delta[1], max_param_delta[2])

\* lines 28-30 and 46-48 of the documentation: the size of the fractional
\* change of the monitored parameter is greater than max_param_delta
ChangeTooLarge(monitor_cur, monitor_new) ==
    LET denom_val == DenomVal(monitor_cur, monitor_new)
    IN /\ denom_val # 0
       /\ Abs(monitor_new - monitor_cur) * max_param_delta[2]
              > max_param_delta[1] * Abs(denom_val)

\* history of the attempts: "none" before the first attempt, "all_large"
\* while every attempt changed the monitored parameter by more than
\* max_param_delta, "some_small" afterwards
Attempted(yn) ==
    IF ChangeTooLarge(Monitor(y_cur), Monitor(yn)) /\ attempts # "some_small"
    THEN "all_large" ELSE "some_small"

\* ----------------------------------------------------------- lines 145-156
\* the halving of line 150 without the floor of lines 151-152
HalvedNoFloor(s) == s \div 2

Halved(s) ==
    LET half == s \div 2
    IN IF half < min_step_time THEN min_step_time ELSE half

\* line 145 with <= in place of ==
AtMinStepOrBelow == cur_step_size <= min_step_time

\* line 145
AtMinStep == cur_step_size = min_step_time

\* lines 145-147: the change is too large at the smallest step
Fail ==
    /\ pc = "attempt"
    /\ \E ks \in StageResults :
         /\ Exceeds(Monitor(y_cur), Monitor(YNew(ks)))
         /\ y_new' = YNew(ks)
         /\ calls' = CallLog(ks)
         /\ attempts' = Attempted(YNew(ks))
    /\ AtMinStep
    /\ not_failed' = FALSE
    /\ status' = -1
    /\ pc' = "guard"
    /\ UNCHANGED <<args, y_cur, y_old, times, y_vals, current_time,
                   cur_step_size, next_relax, end_cond_val, pending>>

\* lines 154-156 scheduling the relaxation for the current time
ScheduledRelaxNow == IF next_relax < 0 THEN current_time ELSE next_relax

\* lines 154-156: the time of the next relaxation after a rejection
ScheduledRelax ==
    IF next_relax < 0 THEN current_time + base_time_step ELSE next_relax

\* lines 148-156: the change is too large, halve the step and retry
Reject ==
    /\ pc = "attempt"
    /\ \E ks \in StageResults :
         /\ Exceeds(Monitor(y_cur), Monitor(YNew(ks)))
         /\ y_new' = YNew(ks)
         /\ calls' = CallLog(ks)
         /\ attempts' = Attempted(YNew(ks))
    /\ ~AtMinStep
    /\ cur_step_size' = Halved(cur_step_size)
    /\ next_relax' = ScheduledRelax
    /\ pending' = TRUE
    /\ pc' = "guard"
    /\ UNCHANGED <<args, y_cur, y_old, times, y_vals, current_time,
                   end_cond_val, status, not_failed>>

\* line 162 moved before line 160
AppendedTimesEarly == Append(times, current_time)

\* lines 160 and 162
AppendedTimes == Append(times, current_time + cur_step_size)

\* line 161 writing over the last stored state
AppendedValsInPlace(yn) == [y_vals EXCEPT ![Len(y_vals)] = yn]

\* line 161
AppendedVals(yn) == Append(y_vals, yn)

\* lines 158-163: the step succeeded
Accept ==
    /\ pc = "attempt"
    /\ \E ks \in StageResults :
         /\ ~Exceeds(Monitor(y_cur), Monitor(YNew(ks)))
         /\ y_new' = YNew(ks)
         /\ calls' = CallLog(ks)
         /\ attempts' = Attempted(YNew(ks))
    /\ Len(times) < MaxPoints
    /\ current_time' = current_time + cur_step_size
    /\ y_vals' = AppendedVals(y_new')
    /\ times' = AppendedTimes
    /\ y_cur' = y_new'
    /\ pc' = "guard"
    /\ UNCHANGED <<args, y_old, cur_step_size, next_relax, end_cond_val,
                   status, not_failed, pending>>

Next ==
    \/ LoopExit
    \/ EndRaises
    \/ EndMet
    \/ EndNotMet
    \/ Relax
    \/ NoRelaxation
    \/ Fail
    \/ Reject
    \/ Accept

Spec == Init /\ [][Next]_vars

\* the same program called with the callbacks of AliasInit
AliasSpec == AliasInit /\ [][Next]_vars

\* the calls checked for termination: every input of Init but for one
\* initial state vector and one monitored index
LiveInit ==
    /\ Init
    /\ initial_val = <<InitUnit * MaxInit, -InitUnit * MaxInit>>
    /\ param_to_monitor = 0

\* the loop runs on whenever it can: the program is sequential
FairSpec == LiveInit /\ [][Next]_vars /\ WF_vars(Next)

\* the bound MaxPoints cuts no run with a positive base_time_step short
PointsWithinBound ==
    base_time_step > 0 => (pc = "attempt" => Len(times) < MaxPoints)

TypeOK ==
    /\ pc \in {"guard", "relax", "attempt", "done", "raised"}
    /\ attempts \in {"none", "all_large", "some_small"}
    /\ pending \in BOOLEAN
    /\ status \in Int
    /\ cur_step_size \in Int

\* ===================================================================== C1
\* C1: for every point of the trajectory after the first, the size of the
\* fractional change of the monitored component from the preceding point
\* (measured against the new value, or against the old one when the new
\* one is zero) is at most max_param_delta, for positive and negative
\* values alike; nothing is asked when both values are zero.
C1_AcceptedChangeBounded ==
    \A i \in 1..(Len(y_vals) - 1) :
        ~ChangeTooLarge(Monitor(y_vals[i]), Monitor(y_vals[i + 1]))

\* ===================================================================== C2
StepPrecondition == 0 < min_step_time /\ min_step_time <= base_time_step

\* cur_step_size' is cur_step_size/2, or min_step_time when that is smaller
IsHalving ==
    \/ cur_step_size' * 2 = cur_step_size /\ cur_step_size' >= min_step_time
    \/ cur_step_size' = min_step_time /\ cur_step_size < 2 * min_step_time

\* cur_step_size' is cur_step_size*2, or base_time_step when that is smaller
IsDoubling ==
    \/ cur_step_size' = cur_step_size * 2 /\ cur_step_size' <= base_time_step
    \/ cur_step_size' = base_time_step /\ cur_step_size * 2 > base_time_step

\* C2: with 0 < min_step_time <= base_time_step the step size is always in
\* [min_step_time, base_time_step], and every change of it is a halving
\* floored at min_step_time or a doubling capped at base_time_step.
C2_StepBounds ==
    /\ [](StepPrecondition =>
             /\ min_step_time <= cur_step_size
             /\ cur_step_size <= base_time_step)
    /\ [][(StepPrecondition /\ cur_step_size' # cur_step_size)
             => (IsHalving \/ IsDoubling)]_vars

\* the step size is back at base_time_step after a step taken at a floored
\* half of it: it was halved to min_step_time, then doubled and capped
C2_Witness ==
    /\ StepPrecondition
    /\ pc = "attempt"
    /\ cur_step_size = base_time_step
    /\ \E i \in 1..(Len(times) - 1) :
          /\ times[i + 1] - times[i] = min_step_time
          /\ min_step_time < base_time_step
          /\ 2 * min_step_time > base_time_step

\* ===================================================================== C3
\* C3: when every attempt of the run changed the monitored component by
\* more than max_param_delta (and the end condition never stopped the run),
\* the run ends with status -1 and the trajectory holds the initial point
\* only.
C3_AlwaysTooLargeFails ==
    (pc = "done" /\ attempts = "all_large" /\ end_cond_val)
        => (status = -1 /\ Len(times) = 1)

\* ===================================================================== C4
AtMinRejected ==
    /\ pc = "attempt"
    /\ cur_step_size = min_step_time
    /\ Exceeds(Monitor(y_cur), Monitor(y_new'))

\* C4: status becomes -1 exactly in an attempt made at the step size
\* min_step_time that the acceptance test rejects; that attempt appends
\* nothing and leaves the time alone, and the only step after it is the
\* return, with status still -1.
C4_FailureIffRejectedAtMin ==
    [][ /\ (status' = -1 /\ status # -1)
            => (AtMinRejected /\ times' = times /\ y_vals' = y_vals
                /\ current_time' = current_time /\ y_cur' = y_cur)
        /\ AtMinRejected => status' = -1
        /\ status = -1
            => (pc = "guard" /\ pc' = "done" /\ status' = -1
                /\ times' = times /\ y_vals' = y_vals /\ calls' = calls
                /\ current_time' = current_time) ]_vars

\* a run that failed after it had accepted a step
C4_Witness == pc = "done" /\ status = -1 /\ Len(times) > 1

\* ===================================================================== C5
EndSignalled ==
    /\ pc = "guard"
    /\ current_time < max_time /\ end_cond_val /\ not_failed
    /\ Callable(end_condition)
    /\ EndCondition(end_condition, current_time, y_cur, y_old) # 0

PrevVals(i) == IF i = 1 THEN Zeros(initial_val) ELSE y_vals[i - 1]

\* the value of the end condition at point i of the trajectory
EndAt(i) == EndCondition(end_condition, times[i], y_vals[i], PrevVals(i))

\* C6 as stated: a run that returns status 0 has reached max_time and the
\* end condition is zero at every point of the trajectory, the last one
\* included.
C6_EndNowhereMet ==
    (pc = "done" /\ status = 0)
        => /\ current_time >= max_time
           /\ \A i \in 1..Len(times) : EndAt(i) = 0

\* C6 amended: a run that returns status 0 has reached max_time and the
\* end condition is zero at every point of the trajectory but the last, at
\* which it is not evaluated.
C6_EndNotMetBeforeLast ==
    (pc = "done" /\ status = 0)
        => /\ current_time >= max_time
           /\ \A i \in 1..(Len(times) - 1) : EndAt(i) = 0

\* a run of several steps that returns 0 although the end condition is
\* met at its last point
C6_Witness ==
    /\ pc = "done" /\ status = 0 /\ Len(times) > 2
    /\ EndAt(Len(times)) # 0

\* ===================================================================== C7
TimesIncreasing ==
    /\ times[1] = start_time
    /\ \A i \in 1..(Len(times) - 1) : times[i] < times[i + 1]

\* C7 as stated: with min_step_time > 0 the times of the trajectory start
\* at start_time and are strictly increasing.
C7_TimesIncreasing == min_step_time > 0 => TimesIncreasing

\* C7 amended: with min_step_time > 0 and base_time_step > 0 the times of
\* the trajectory start at start_time and are strictly increasing.
C7_TimesIncreasingPositiveBase ==
    (min_step_time > 0 /\ base_time_step > 0) => TimesIncreasing

\* a trajectory of steps of different sizes
C7_Witness ==
    /\ min_step_time > 0 /\ base_time_step > 0
    /\ Len(times) > 3
    /\ times[2] - times[1] # times[Len(times)] - times[Len(times) - 1]

\* ===================================================================== C8
\* C8: with 0 < min_step_time <= base_time_step every run ends (it returns,
\* or a callback that cannot be called raises), and every accepted step
\* advances the time by at least min_step_time.
C8_Terminates ==
    /\ StepPrecondition => <>(pc \in {"done", "raised"})
    /\ [][(StepPrecondition /\ Len(times') > Len(times))
             => current_time' >= current_time + min_step_time]_vars

\* a run that returned after a rejection, a relaxation and accepted steps
C8_Witness ==
    /\ StepPrecondition
    /\ pc = "done"
    /\ cur_step_size = base_time_step
    /\ \E i \in 1..(Len(times) - 1) : times[i + 1] - times[i] < base_time_step

C10_ZeroIterations ==
    max_time <= start_time
        => /\ pc \in {"guard", "done"}
           /\ times = <<start_time>>
           /\ y_vals = <<initial_val>>
           /\ status = 0
           /\ end_cond_val /\ not_failed
           /\ attempts = "none"

\* such a call has returned although the end condition is met at the
\* initial point
C10_Witness ==
    /\ pc = "done" /\ max_time <= start_time
    /\ EndCondition(end_condition, start_time, initial_val,
                    Zeros(initial_val)) # 0

\* ==================================================================== C12
\* C12: the calls of the reference scenario of pynamic_test (its
\* end_condition, both schemes) return a status; a necessary part of the
\* claim that they return a status > 0.  The numbers of the scenario (0.5,
\* 0.01, 0.1) are not on the grid of the model and play no part here.
C12_ReferenceRunReturns ==
    end_condition = TestEndCondition => pc # "raised"

\* ==================================================================== C13
\* C13: the step size is doubled (lines 98-104) only in an iteration in
\* which it is below base_time_step, a relaxation is pending and
\* current_time has reached the pending relaxation time; the doubling
\* clears the marker.  After a relaxation a further doubling needs a new
\* rejection.
C13_DoubledOnlyWhenPending ==
    [][(pc = "relax" /\ cur_step_size' # cur_step_size)
          => /\ cur_step_size < base_time_step
             /\ pending
             /\ current_time >= next_relax
             /\ next_relax' = NoRelax
             /\ ~pending']_vars

\* ==================================================================== C14
\* the call of end_condition of line 91 is the next step
EndEvaluated == pc = "guard" /\ LoopGuard /\ Callable(end_condition)

\* C14: whenever the end condition is evaluated after a step has been
\* accepted, the previous values passed to it (y_old) are the state of the
\* point of the trajectory just before the current one, on the iteration
\* that follows a rejected attempt too.
C14_PreviousStateIsPreviousPoint ==
    (EndEvaluated /\ Len(y_vals) > 1) => y_old = y_vals[Len(y_vals) - 1]

\* ==================================================================== C15
\* an attempt at a step size above min_step_time is rejected in this step
RejectedAboveMin ==
    /\ pc = "attempt"
    /\ cur_step_size > min_step_time
    /\ Exceeds(Monitor(y_cur), Monitor(y_new'))

\* the last attempt was rejected: its candidate state y_new was not taken
\* over as y_cur (a rejected candidate differs from y_cur in the monitored
\* component, an accepted one becomes y_cur)
RetryIteration == pc = "relax" /\ y_new # y_cur

C16_ScheduledOnceUntilRelaxed ==
    [][RejectedAboveMin
          => next_relax' = (IF pending THEN next_relax
                            ELSE current_time + base_time_step)]_vars

\* ==================================================================== C17
\* C17: the array handed to a callback is a copy: the call of the end
\* condition changes neither the current state nor a state stored in the
\* trajectory, whatever the callback writes to its argument.
C17_CallbackSeesCopy ==
    [][EndEvaluated
          => /\ y_cur' = y_cur
             /\ \A i \in 1..Len(y_vals) : y_vals'[i] = y_vals[i]]_vars

\* ==================================================================== C18
\* the rule of the claim: denom is new unless new is zero, then cur; the
\* step is rejected when denom # 0 and |new - cur| / denom is greater than
\* max_param_delta (a fraction with a positive denominator; the division
\* by a negative denom turns the comparison round)
RefRejected(cur, new) ==
    LET denom == IF new = 0 THEN cur ELSE new
        change == IF new >= cur THEN new - cur ELSE cur - new
    IN /\ denom # 0
       /\ \/ denom > 0 /\ change * max_param_delta[2] > max_param_delta[1] * denom
          \/ denom < 0 /\ change * max_param_delta[2] < max_param_delta[1] * denom

IsStep(a, b, k, h, d) ==
    /\ Len(b) = Len(a)
    /\ \A i \in 1..Len(a) : d * (b[i] - a[i]) = k[i] * h

\* C19: an attempt calls func once under RK1, as func(h, y), and four
\* times under RK4, as k1 = func(h, y), k2 = func(h/2, y + k1*h/2),
\* k3 = func(h/2, y + k2*h/2), k4 = func(h, y + k3*h), in this order; the
\* candidate state is y + h*k1 under RK1 and y + h*(k1 + 2*k2 + 2*k3 +
\* k4)/6 under RK4; h is the step size the relaxation check has left, y
\* the current state.  No other step calls func.
C19_StageCalls ==
    [][ /\ pc = "attempt"
            => LET h == cur_step_size
                   y == y_cur
                   c == calls'
               IN IF use_rk4
                  THEN /\ Len(c) = 4
                       /\ c[1].h2 = 2 * h /\ c[1].y = y
                       /\ c[2].h2 = h /\ IsStep(y, c[2].y, c[1].k, h, 2)
                       /\ c[3].h2 = h /\ IsStep(y, c[3].y, c[2].k, h, 2)
                       /\ c[4].h2 = 2 * h /\ IsStep(y, c[4].y, c[3].k, h, 1)
                       /\ IsStep(y, y_new',
                                 [i \in 1..Len(y) |->
                                     c[1].k[i] + 2 * c[2].k[i]
                                         + 2 * c[3].k[i] + c[4].k[i]],
                                 h, 6)
                  ELSE /\ Len(c) = 1
                       /\ c[1].h2 = 2 * h /\ c[1].y = y
                       /\ IsStep(y, y_new', c[1].k, h, 1)
        /\ pc # "attempt" => (calls' = calls \/ calls' = <<>>) ]_vars

\* an RK4 attempt whose four calls did not all return the same, made at a
\* step size that the relaxation check of its iteration had doubled
C19_Witness ==
    /\ use_rk4 /\ Len(calls) = 4 /\ ~pending
    /\ calls[1].k # calls[2].k /\ calls[3].k # calls[4].k
    /\ calls[1].h2 = 2 * cur_step_size
    /\ \E i \in 1..(Len(times) - 1) : times[i + 1] - times[i] < cur_step_size

\* ==================================================================== C20
\* this step calls the end condition (line 91)
EndEvaluatedNow ==
    pc = "guard" /\ (pc' = "relax" \/ end_cond_val' # end_cond_val)

\* C20: with max_time > start_time and 0 < min_step_time <= base_time_step
\* every time of the trajectory but the last is below max_time and the
\* last is below max_time + base_time_step; the end condition is only
\* evaluated at the last point of the trajectory, at a time below max_time.
C20_OvershootBelowBaseStep ==
    /\ []((max_time > start_time /\ StepPrecondition)
             => /\ \A i \in 1..(Len(times) - 1) : times[i] < max_time
                /\ times[Len(times)] < max_time + base_time_step)
    /\ [][(max_time > start_time /\ StepPrecondition /\ EndEvaluatedNow)
             => /\ current_time < max_time
                /\ current_time = times[Len(times)]]_vars

\* a returned trajectory of several steps whose last time is beyond
\* max_time, by more than min_step_time
C20_Witness ==
    /\ max_time > start_time /\ StepPrecondition
    /\ pc = "done" /\ status = 0 /\ Len(times) > 2
    /\ times[Len(times)] > max_time + min_step_time

====
